---- MODULE Spec2Model ----
(***************************************************************************)
(* Model of the webhook verification middleware of                         *)
(* ohmybrew/http_shopify_webhook (src/http_shopify_webhook.go).            *)
(*                                                                         *)
(* A chain of `depth` gates built by WebhookVerify(key) wraps a downstream *)
(* handler h.  Every request is served by one task that walks through the  *)
(* closure of webhookVerifyHandler statement by statement; tasks of        *)
(* different requests interleave freely.                                   *)
(*                                                                         *)
(* Go strings that the code inspects (header values, the hex digest) are   *)
(* sequences of one-character strings; byte slices are sequences of        *)
(* integers 0..255.                                                        *)
(***************************************************************************)
EXTENDS Integers, Sequences, FiniteSets, TLC

\* ------------------------------------------------------------------ bounds
\* Longest request body over ByteAlphabet.
MaxBodyLen == 2
\* Most bytes one Read call on the body stream returns.
MaxChunk == 2
\* Most gates chained around the downstream handler.
MaxDepth == 2
\* Requests in flight at once.
NumRequests == 2

Reqs == 1..NumRequests

\* --------------------------------------------------------------- constants
\* net/http: http.StatusBadRequest.
StatusBadRequest == 400
\* The literal message handed to http.Error.
InvalidSignatureMessage == "Invalid webhook signature"
\* The two header names the gate reads.
HmacHeader == "X-Shopify-Hmac-Sha256"
ShopHeader == "X-Shopify-Shop-Domain"

\* ------------------------------------------------------------------ inputs
Keys == {"abc123", "s3cr3t"}
ByteAlphabet == {97, 98}

RECURSIVE SeqsUpTo(_, _)
SeqsUpTo(S, n) ==
  IF n = 0 THEN {<<>>}
  ELSE LET shorter == SeqsUpTo(S, n - 1)
       IN  shorter \cup {Append(s, x) : s \in {t \in shorter : Len(t) = n - 1}, x \in S}

\* The body of the specification's concrete scenarios: {"id":1}
ScenarioBody == <<123, 34, 105, 100, 34, 58, 49, 125>>

Bodies == SeqsUpTo(ByteAlphabet, MaxBodyLen) \cup {ScenarioBody}

Prefix(s, n) == SubSeq(s, 1, n)
Min(a, b) == IF a < b THEN a ELSE b

\* ------------------------------------------------- crypto/hmac, crypto/sha256
\* hmac.New(sha256.New, key); Write(body); Sum(nil): the 32-byte digests of the
\* library on the inputs the model draws from (every body over ByteAlphabet of
\* at most four bytes, every prefix of ScenarioBody, and {"id":2}).
HmacSha256Table ==
    <<"abc123", <<>>>> :>
      <<109, 45, 159, 198, 16, 51, 127, 129, 58, 27, 133, 134, 158, 194, 20, 18, 153, 64, 134, 5, 67, 173, 4, 48, 141, 135, 53, 127, 108, 1, 51, 246>> @@
    <<"abc123", <<97>>>> :>
      <<181, 158, 50, 10, 207, 169, 75, 146, 142, 42, 244, 73, 224, 164, 89, 150, 227, 89, 175, 245, 5, 84, 223, 27, 14, 78, 28, 60, 66, 223, 32, 17>> @@
    <<"abc123", <<98>>>> :>
      <<186, 228, 24, 129, 110, 74, 244, 198, 11, 214, 209, 216, 107, 10, 220, 13, 106, 199, 209, 67, 230, 247, 236, 13, 182, 221, 139, 219, 184, 34, 183, 118>> @@
    <<"abc123", <<97, 97>>>> :>
      <<24, 146, 56, 172, 73, 220, 190, 71, 48, 17, 225, 209, 151, 203, 211, 64, 207, 157, 214, 28, 117, 13, 226, 90, 98, 44, 174, 90, 211, 43, 241, 33>> @@
    <<"abc123", <<97, 98>>>> :>
      <<11, 91, 133, 218, 11, 229, 197, 178, 139, 76, 188, 43, 200, 157, 113, 187, 20, 172, 254, 134, 246, 15, 207, 53, 246, 38, 87, 233, 219, 231, 103, 160>> @@
    <<"abc123", <<98, 97>>>> :>
      <<249, 93, 1, 98, 33, 53, 165, 234, 155, 219, 241, 210, 136, 68, 94, 217, 112, 114, 97, 119, 132, 63, 11, 65, 59, 42, 3, 231, 140, 172, 103, 0>> @@
    <<"abc123", <<98, 98>>>> :>
      <<35, 198, 38, 134, 42, 200, 10, 124, 161, 174, 242, 210, 12, 124, 148, 65, 31, 179, 210, 2, 196, 65, 102, 187, 46, 82, 159, 226, 99, 100, 113, 101>> @@
    <<"abc123", <<97, 97, 97>>>> :>
      <<75, 128, 95, 83, 102, 98, 162, 19, 21, 63, 235, 45, 188, 44, 163, 254, 112, 110, 85, 95, 19, 42, 233, 184, 64, 7, 75, 255, 2, 187, 64, 13>> @@
    <<"abc123", <<97, 97, 98>>>> :>
      <<199, 33, 58, 131, 85, 64, 17, 51, 174, 4, 71, 42, 113, 138, 33, 21, 56, 153, 22, 92, 86, 144, 8, 41, 26, 82, 65, 132, 234, 37, 80, 57>> @@
    <<"abc123", <<97, 98, 97>>>> :>
      <<144, 79, 199, 182, 134, 5, 243, 18, 33, 229, 112, 21, 79, 105, 136, 219, 38, 249, 24, 104, 154, 236, 253, 187, 57, 220, 6, 18, 99, 133, 141, 239>> @@
    <<"abc123", <<97, 98, 98>>>> :>
      <<217, 4, 66, 78, 128, 155, 224, 88, 38, 119, 101, 205, 185, 172, 20, 123, 191, 159, 248, 236, 195, 216, 102, 222, 106, 137, 91, 145, 79, 37, 4, 46>> @@
    <<"abc123", <<98, 97, 97>>>> :>
      <<130, 81, 12, 253, 210, 57, 247, 145, 124, 92, 53, 53, 32, 238, 3, 231, 31, 152, 109, 40, 246, 36, 209, 205, 211, 246, 238, 51, 180, 215, 245, 25>> @@
    <<"abc123", <<98, 97, 98>>>> :>
      <<74, 231, 182, 217, 98, 119, 124, 91, 94, 229, 168, 127, 144, 117, 181, 23, 195, 32, 72, 153, 107, 115, 87, 167, 172, 127, 143, 152, 57, 160, 45, 38>> @@
    <<"abc123", <<98, 98, 97>>>> :>
      <<150, 79, 217, 171, 29, 161, 223, 106, 160, 180, 177, 103, 97, 101, 249, 217, 102, 55, 222, 34, 19, 235, 185, 8, 75, 211, 3, 52, 196, 52, 104, 192>> @@
    <<"abc123", <<98, 98, 98>>>> :>
      <<26, 166, 145, 223, 99, 162, 161, 32, 22, 31, 210, 217, 62, 49, 20, 238, 243, 111, 84, 243, 174, 189, 103, 180, 223, 185, 224, 113, 17, 51, 126, 45>> @@
    <<"abc123", <<97, 97, 97, 97>>>> :>
      <<22, 212, 159, 233, 173, 219, 199, 44, 237, 176, 95, 16, 53, 95, 199, 17, 49, 86, 71, 99, 103, 134, 194, 27, 227, 73, 60, 219, 147, 191, 248, 241>> @@
    <<"abc123", <<97, 97, 97, 98>>>> :>
      <<249, 109, 134, 51, 196, 194, 138, 30, 113, 123, 120, 159, 143, 237, 28, 102, 205, 230, 216, 71, 197, 204, 158, 70, 145, 126, 131, 9, 15, 65, 80, 210>> @@
    <<"abc123", <<97, 97, 98, 97>>>> :>
      <<36, 181, 72, 140, 118, 204, 58, 115, 110, 176, 202, 205, 154, 197, 250, 138, 138, 134, 121, 229, 122, 34, 125, 210, 15, 200, 244, 37, 84, 198, 253, 147>> @@
    <<"abc123", <<97, 97, 98, 98>>>> :>
      <<66, 66, 49, 180, 121, 9, 149, 239, 50, 116, 201, 28, 250, 116, 40, 38, 187, 224, 141, 225, 224, 100, 247, 39, 99, 235, 119, 58, 134, 105, 125, 231>> @@
    <<"abc123", <<97, 98, 97, 97>>>> :>
      <<43, 254, 2, 244, 19, 205, 22, 139, 124, 239, 186, 181, 83, 244, 21, 228, 58, 155, 53, 22, 105, 181, 37, 185, 92, 9, 42, 228, 67, 232, 247, 229>> @@
    <<"abc123", <<97, 98, 97, 98>>>> :>
      <<186, 11, 125, 90, 152, 48, 105, 191, 130, 72, 208, 250, 53, 121, 146, 34, 208, 164, 59, 173, 1, 237, 48, 79, 111, 212, 0, 156, 178, 74, 62, 25>> @@
    <<"abc123", <<97, 98, 98, 97>>>> :>
      <<58, 182, 99, 117, 63, 30, 207, 11, 175, 68, 149, 126, 28, 28, 203, 9, 39, 162, 122, 241, 62, 45, 139, 230, 242, 40, 121, 62, 35, 232, 150, 193>> @@
    <<"abc123", <<97, 98, 98, 98>>>> :>
      <<158, 191, 95, 98, 119, 25, 245, 128, 245, 91, 154, 214, 55, 68, 171, 150, 151, 86, 6, 192, 31, 211, 116, 216, 174, 190, 221, 101, 200, 140, 31, 46>> @@
    <<"abc123", <<98, 97, 97, 97>>>> :>
      <<26, 4, 65, 196, 69, 134, 68, 192, 178, 170, 247, 67, 203, 152, 12, 152, 202, 4, 5, 41, 243, 185, 151, 102, 35, 80, 64, 44, 222, 30, 127, 32>> @@
    <<"abc123", <<98, 97, 97, 98>>>> :>
      <<121, 45, 86, 124, 180, 214, 13, 96, 40, 237, 225, 61, 244, 178, 11, 46, 185, 143, 221, 178, 9, 31, 247, 45, 97, 228, 11, 43, 211, 94, 89, 208>> @@
    <<"abc123", <<98, 97, 98, 97>>>> :>
      <<113, 111, 171, 112, 143, 191, 16, 0, 198, 65, 90, 207, 144, 255, 233, 233, 214, 178, 109, 208, 52, 19, 213, 214, 230, 195, 179, 251, 207, 131, 4, 15>> @@
    <<"abc123", <<98, 97, 98, 98>>>> :>
      <<151, 20, 63, 159, 130, 129, 185, 84, 238, 183, 156, 54, 86, 214, 113, 184, 251, 216, 65, 55, 92, 109, 132, 213, 240, 115, 66, 234, 104, 81, 183, 88>> @@
    <<"abc123", <<98, 98, 97, 97>>>> :>
      <<86, 54, 152, 22, 154, 136, 168, 194, 196, 103, 232, 135, 0, 131, 159, 231, 5, 196, 105, 17, 116, 70, 254, 203, 246, 154, 93, 11, 104, 135, 20, 162>> @@
    <<"abc123", <<98, 98, 97, 98>>>> :>
      <<31, 129, 26, 179, 15, 130, 48, 45, 234, 255, 138, 185, 198, 114, 6, 234, 65, 13, 237, 55, 35, 93, 45, 24, 115, 221, 247, 149, 24, 168, 62, 125>> @@
    <<"abc123", <<98, 98, 98, 97>>>> :>
      <<131, 114, 113, 235, 229, 191, 126, 98, 158, 254, 124, 252, 1, 37, 157, 144, 168, 28, 213, 82, 229, 222, 58, 25, 177, 234, 20, 29, 111, 21, 241, 151>> @@
    <<"abc123", <<98, 98, 98, 98>>>> :>
      <<103, 141, 17, 5, 20, 230, 178, 124, 93, 251, 121, 205, 220, 251, 161, 167, 169, 2, 215, 6, 166, 49, 19, 41, 67, 72, 107, 194, 132, 70, 154, 78>> @@
    <<"abc123", <<123>>>> :>
      <<58, 24, 8, 58, 89, 12, 151, 56, 66, 106, 213, 45, 166, 21, 64, 106, 215, 41, 113, 181, 193, 28, 227, 196, 84, 172, 243, 174, 9, 155, 95, 243>> @@
    <<"abc123", <<123, 34>>>> :>
      <<7, 184, 42, 91, 84, 127, 201, 222, 112, 210, 176, 194, 188, 225, 152, 36, 245, 29, 38, 2, 72, 105, 104, 34, 6, 65, 155, 57, 227, 145, 157, 223>> @@
    <<"abc123", <<123, 34, 105>>>> :>
      <<185, 222, 97, 250, 254, 229, 253, 169, 179, 239, 228, 6, 59, 113, 160, 177, 81, 187, 157, 30, 48, 247, 216, 215, 70, 15, 133, 85, 143, 57, 167, 199>> @@
    <<"abc123", <<123, 34, 105, 100>>>> :>
      <<23, 197, 32, 177, 33, 186, 153, 109, 42, 110, 153, 120, 191, 142, 171, 244, 105, 238, 37, 230, 18, 57, 126, 200, 221, 77, 188, 42, 224, 54, 242, 158>> @@
    <<"abc123", <<123, 34, 105, 100, 34>>>> :>
      <<200, 49, 244, 255, 99, 182, 180, 116, 209, 157, 152, 206, 173, 255, 216, 211, 210, 188, 165, 206, 50, 136, 163, 251, 1, 35, 142, 233, 53, 96, 244, 176>> @@
    <<"abc123", <<123, 34, 105, 100, 34, 58>>>> :>
      <<49, 198, 60, 0, 17, 206, 220, 98, 32, 215, 44, 51, 173, 243, 58, 160, 1, 27, 249, 76, 32, 56, 145, 207, 134, 217, 178, 58, 76, 25, 58, 79>> @@
    <<"abc123", <<123, 34, 105, 100, 34, 58, 49>>>> :>
      <<193, 222, 45, 49, 101, 38, 123, 244, 122, 248, 9, 42, 171, 104, 8, 203, 242, 45, 192, 82, 181, 224, 189, 124, 125, 30, 227, 23, 49, 44, 138, 80>> @@
    <<"abc123", <<123, 34, 105, 100, 34, 58, 49, 125>>>> :>
      <<17, 132, 251, 27, 189, 114, 199, 181, 97, 70, 167, 47, 202, 140, 240, 129, 158, 216, 201, 125, 63, 152, 233, 182, 216, 109, 154, 29, 250, 106, 181, 220>> @@
    <<"abc123", <<123, 34, 105, 100, 34, 58, 50, 125>>>> :>
      <<78, 249, 96, 86, 190, 172, 90, 234, 87, 120, 219, 8, 132, 175, 34, 95, 74, 144, 213, 2, 3, 61, 50, 234, 151, 219, 21, 144, 175, 237, 6, 227>> @@
    <<"s3cr3t", <<>>>> :>
      <<60, 129, 204, 148, 150, 225, 194, 82, 80, 246, 204, 184, 95, 105, 124, 27, 182, 35, 227, 72, 13, 101, 56, 173, 140, 182, 166, 100, 129, 66, 119, 125>> @@
    <<"s3cr3t", <<97>>>> :>
      <<206, 44, 223, 219, 222, 81, 68, 108, 82, 195, 73, 126, 88, 179, 32, 233, 151, 184, 57, 57, 1, 141, 76, 240, 138, 96, 2, 242, 194, 185, 47, 151>> @@
    <<"s3cr3t", <<98>>>> :>
      <<122, 166, 220, 190, 76, 113, 19, 109, 220, 129, 244, 195, 3, 15, 91, 70, 142, 34, 73, 252, 183, 106, 79, 137, 5, 17, 90, 127, 156, 97, 131, 196>> @@
    <<"s3cr3t", <<97, 97>>>> :>
      <<136, 219, 91, 255, 172, 107, 29, 35, 62, 27, 46, 168, 83, 202, 20, 200, 25, 201, 16, 238, 12, 166, 79, 224, 140, 88, 241, 71, 252, 125, 110, 58>> @@
    <<"s3cr3t", <<97, 98>>>> :>
      <<181, 210, 58, 15, 40, 74, 112, 9, 174, 139, 147, 206, 71, 187, 76, 201, 18, 86, 89, 177, 57, 207, 130, 47, 85, 255, 137, 50, 223, 17, 242, 122>> @@
    <<"s3cr3t", <<98, 97>>>> :>
      <<211, 133, 157, 90, 23, 154, 71, 106, 170, 94, 188, 178, 18, 57, 35, 28, 119, 129, 71, 230, 24, 207, 55, 133, 248, 209, 139, 96, 117, 240, 203, 40>> @@
    <<"s3cr3t", <<98, 98>>>> :>
      <<169, 7, 64, 245, 41, 16, 137, 123, 14, 46, 88, 245, 33, 186, 136, 74, 232, 151, 12, 38, 223, 125, 190, 151, 185, 154, 38, 22, 186, 236, 200, 167>> @@
    <<"s3cr3t", <<97, 97, 97>>>> :>
      <<138, 171, 225, 232, 113, 165, 131, 220, 90, 181, 171, 210, 133, 175, 134, 232, 151, 40, 38, 32, 44, 30, 215, 75, 161, 11, 111, 251, 37, 15, 202, 44>> @@
    <<"s3cr3t", <<97, 97, 98>>>> :>
      <<224, 9, 164, 157, 120, 0, 37, 21, 165, 199, 37, 62, 193, 236, 31, 90, 45, 77, 24, 226, 29, 20, 252, 66, 128, 62, 174, 125, 17, 176, 249, 100>> @@
    <<"s3cr3t", <<97, 98, 97>>>> :>
      <<111, 127, 11, 18, 71, 87, 97, 142, 103, 142, 0, 45, 152, 3, 186, 171, 153, 18, 21, 82, 116, 11, 163, 181, 148, 80, 53, 126, 123, 118, 234, 78>> @@
    <<"s3cr3t", <<97, 98, 98>>>> :>
      <<26, 6, 155, 183, 177, 233, 50, 133, 82, 121, 202, 178, 58, 238, 173, 185, 1, 4, 14, 115, 68, 82, 79, 204, 73, 68, 198, 54, 234, 190, 2, 159>> @@
    <<"s3cr3t", <<98, 97, 97>>>> :>
      <<100, 155, 145, 198, 88, 151, 119, 87, 216, 183, 231, 74, 87, 101, 215, 168, 117, 168, 201, 239, 120, 50, 235, 85, 36, 207, 192, 51, 80, 28, 122, 186>> @@
    <<"s3cr3t", <<98, 97, 98>>>> :>
      <<79, 156, 226, 175, 60, 208, 222, 168, 254, 96, 139, 108, 123, 238, 232, 22, 202, 19, 110, 204, 116, 125, 196, 114, 163, 246, 105, 134, 14, 67, 61, 187>> @@
    <<"s3cr3t", <<98, 98, 97>>>> :>
      <<86, 140, 199, 139, 12, 178, 138, 213, 194, 219, 252, 63, 181, 47, 228, 143, 13, 200, 15, 62, 90, 44, 152, 96, 250, 123, 225, 244, 67, 136, 215, 159>> @@
    <<"s3cr3t", <<98, 98, 98>>>> :>
      <<193, 164, 241, 23, 245, 24, 198, 128, 236, 239, 71, 213, 80, 240, 165, 111, 233, 157, 31, 160, 5, 1, 160, 38, 140, 249, 146, 195, 43, 99, 135, 25>> @@
    <<"s3cr3t", <<97, 97, 97, 97>>>> :>
      <<123, 108, 60, 72, 61, 222, 73, 122, 173, 238, 15, 125, 72, 127, 196, 218, 140, 83, 23, 3, 42, 106, 62, 202, 248, 129, 175, 222, 12, 109, 0, 73>> @@
    <<"s3cr3t", <<97, 97, 97, 98>>>> :>
      <<119, 36, 137, 65, 132, 239, 190, 177, 160, 199, 115, 196, 131, 60, 150, 255, 24, 27, 75, 15, 252, 134, 58, 112, 12, 99, 97, 118, 46, 158, 4, 88>> @@
    <<"s3cr3t", <<97, 97, 98, 97>>>> :>
      <<103, 206, 124, 95, 27, 234, 192, 169, 88, 73, 169, 131, 70, 48, 123, 187, 18, 249, 213, 212, 76, 16, 179, 63, 113, 150, 50, 172, 238, 35, 185, 98>> @@
    <<"s3cr3t", <<97, 97, 98, 98>>>> :>
      <<183, 154, 172, 153, 205, 144, 122, 87, 203, 167, 69, 96, 234, 61, 20, 31, 147, 161, 88, 99, 37, 95, 57, 205, 47, 99, 219, 15, 126, 190, 61, 157>> @@
    <<"s3cr3t", <<97, 98, 97, 97>>>> :>
      <<236, 16, 162, 115, 61, 41, 207, 199, 176, 94, 90, 158, 149, 198, 194, 157, 204, 235, 200, 242, 224, 174, 241, 28, 44, 154, 192, 186, 224, 211, 127, 185>> @@
    <<"s3cr3t", <<97, 98, 97, 98>>>> :>
      <<217, 37, 185, 151, 134, 179, 121, 196, 247, 38, 210, 230, 177, 223, 8, 113, 5, 34, 150, 161, 28, 234, 46, 14, 66, 221, 5, 82, 27, 86, 175, 111>> @@
    <<"s3cr3t", <<97, 98, 98, 97>>>> :>
      <<14, 139, 171, 95, 154, 36, 90, 200, 197, 241, 150, 90, 124, 247, 1, 170, 3, 244, 175, 139, 231, 219, 205, 179, 116, 186, 92, 27, 224, 162, 201, 147>> @@
    <<"s3cr3t", <<97, 98, 98, 98>>>> :>
      <<208, 112, 34, 69, 208, 96, 159, 102, 170, 136, 129, 82, 58, 187, 109, 198, 62, 215, 123, 170, 206, 129, 85, 53, 78, 204, 4, 163, 169, 29, 90, 240>> @@
    <<"s3cr3t", <<98, 97, 97, 97>>>> :>
      <<140, 91, 192, 14, 9, 28, 243, 89, 118, 75, 183, 254, 11, 186, 164, 59, 36, 38, 157, 185, 163, 94, 14, 175, 39, 21, 243, 134, 245, 75, 211, 206>> @@
    <<"s3cr3t", <<98, 97, 97, 98>>>> :>
      <<124, 108, 233, 150, 79, 151, 169, 106, 251, 44, 39, 14, 0, 165, 160, 138, 249, 219, 161, 74, 22, 17, 101, 58, 146, 106, 243, 134, 110, 33, 66, 50>> @@
    <<"s3cr3t", <<98, 97, 98, 97>>>> :>
      <<1, 121, 102, 15, 149, 126, 18, 98, 1, 151, 31, 195, 132, 88, 235, 39, 202, 46, 90, 177, 61, 55, 138, 26, 55, 42, 47, 35, 2, 33, 72, 225>> @@
    <<"s3cr3t", <<98, 97, 98, 98>>>> :>
      <<195, 63, 58, 100, 81, 195, 24, 7, 186, 105, 22, 163, 143, 127, 124, 66, 99, 85, 226, 86, 26, 197, 97, 82, 51, 201, 112, 21, 218, 103, 137, 250>> @@
    <<"s3cr3t", <<98, 98, 97, 97>>>> :>
      <<213, 149, 225, 232, 66, 242, 3, 238, 18, 158, 91, 161, 234, 211, 26, 117, 83, 22, 77, 123, 72, 140, 30, 86, 6, 56, 19, 62, 186, 25, 132, 96>> @@
    <<"s3cr3t", <<98, 98, 97, 98>>>> :>
      <<248, 47, 173, 122, 115, 1, 112, 91, 135, 13, 76, 252, 102, 221, 4, 200, 30, 254, 56, 81, 95, 20, 232, 122, 152, 163, 50, 47, 236, 0, 122, 173>> @@
    <<"s3cr3t", <<98, 98, 98, 97>>>> :>
      <<180, 204, 126, 46, 123, 109, 74, 85, 116, 14, 208, 203, 105, 205, 70, 76, 178, 197, 241, 53, 101, 106, 189, 246, 206, 109, 225, 244, 201, 189, 48, 54>> @@
    <<"s3cr3t", <<98, 98, 98, 98>>>> :>
      <<41, 252, 235, 243, 40, 102, 182, 13, 144, 192, 64, 7, 40, 164, 200, 210, 106, 226, 144, 206, 109, 170, 40, 58, 161, 219, 211, 61, 63, 57, 166, 52>> @@
    <<"s3cr3t", <<123>>>> :>
      <<229, 98, 126, 103, 249, 219, 69, 246, 7, 57, 167, 102, 174, 21, 91, 195, 162, 39, 205, 51, 62, 253, 189, 28, 108, 14, 247, 112, 193, 239, 6, 198>> @@
    <<"s3cr3t", <<123, 34>>>> :>
      <<132, 167, 70, 88, 212, 227, 223, 30, 227, 245, 46, 133, 169, 126, 150, 119, 80, 144, 181, 225, 136, 59, 139, 89, 184, 67, 114, 169, 53, 121, 106, 44>> @@
    <<"s3cr3t", <<123, 34, 105>>>> :>
      <<173, 77, 237, 108, 166, 242, 132, 130, 14, 180, 130, 30, 209, 188, 232, 123, 158, 40, 198, 55, 111, 99, 153, 103, 140, 36, 17, 45, 55, 124, 218, 97>> @@
    <<"s3cr3t", <<123, 34, 105, 100>>>> :>
      <<0, 172, 163, 169, 240, 154, 245, 109, 186, 145, 56, 206, 245, 17, 120, 225, 188, 223, 238, 222, 167, 85, 62, 154, 244, 46, 52, 51, 154, 192, 242, 126>> @@
    <<"s3cr3t", <<123, 34, 105, 100, 34>>>> :>
      <<164, 228, 179, 137, 164, 178, 194, 181, 142, 172, 179, 218, 168, 37, 205, 178, 157, 154, 21, 136, 36, 59, 25, 162, 49, 251, 136, 181, 253, 40, 251, 71>> @@
    <<"s3cr3t", <<123, 34, 105, 100, 34, 58>>>> :>
      <<63, 159, 210, 109, 94, 250, 68, 10, 102, 39, 90, 207, 149, 3, 102, 155, 63, 138, 158, 109, 178, 38, 8, 134, 254, 236, 134, 135, 97, 132, 72, 79>> @@
    <<"s3cr3t", <<123, 34, 105, 100, 34, 58, 49>>>> :>
      <<147, 67, 128, 52, 18, 96, 179, 226, 57, 228, 235, 228, 199, 209, 62, 127, 190, 188, 39, 230, 153, 29, 172, 38, 53, 62, 193, 28, 139, 196, 164, 97>> @@
    <<"s3cr3t", <<123, 34, 105, 100, 34, 58, 49, 125>>>> :>
      <<207, 83, 211, 74, 233, 197, 42, 17, 149, 208, 29, 162, 13, 93, 222, 128, 97, 60, 77, 56, 101, 64, 196, 107, 188, 185, 37, 48, 20, 221, 197, 5>> @@
    <<"s3cr3t", <<123, 34, 105, 100, 34, 58, 50, 125>>>> :>
      <<114, 16, 116, 141, 73, 76, 243, 72, 110, 245, 32, 145, 105, 107, 89, 161, 189, 237, 36, 130, 192, 138, 159, 214, 165, 47, 187, 0, 2, 145, 171, 118>>

HmacSha256(k, bb) == HmacSha256Table[<<k, bb>>]

\* encoding/hex: const hextable = "0123456789abcdef"
hextable ==
  <<"0", "1", "2", "3", "4", "5", "6", "7", "8", "9", "a", "b", "c", "d", "e", "f">>

\* encoding/hex.EncodeToString: two characters per byte, high nibble first.
EncodeToString(src) ==
  [i \in 1..(2 * Len(src)) |->
     IF i % 2 = 1 THEN hextable[(src[(i + 1) \div 2] \div 16) + 1]
                  ELSE hextable[(src[i \div 2] % 16) + 1]]

\* -------------------------------------------------------------------- state
VARIABLES
  key,      \* the secret closed over by WebhookVerify(key)
  depth,    \* how many gates wrap the downstream handler h
  active,   \* the requests the transport dispatches
  hdr,      \* r.Header of each request: header name -> value
  body0,    \* the body bytes each client sends
  stream,   \* r.Body of each request: read position and failure
  pc,       \* the statement each request's task is at
  level,    \* the handler of the chain that is running (depth + 1: h)
  frames,   \* the locals of each gate invocation, outermost first
  w,        \* the http.ResponseWriter of each request
  calls,    \* the invocations of h: what each was passed and saw
  got,      \* the bytes h has read from r.Body
  trace     \* the steps each request has taken, <<gate, step>>

vars ==
  <<key, depth, active, hdr, body0, stream, pc, level, frames, w, calls, got, trace>>

\* The locals of one invocation of the closure of webhookVerifyHandler, and of
\* the verifyRequest call it makes.
EmptyFrame ==
  [shmac |-> <<>>, shop |-> <<>>, buffer |-> <<>>, bb |-> <<>>, err |-> FALSE,
   hashed |-> FALSE, sum |-> <<>>, verified |-> FALSE, ok |-> FALSE]

EmptyWriter == [status |-> 0, body |-> <<>>, log |-> <<>>]

Top(r) == frames[r][level[r]]

\* ------------------------------------------------------------ r.Header.Get
\* The value of the header, "" when the request does not carry it.
HeaderGet(h, name) == IF name \in DOMAIN h THEN h[name] ELSE <<>>

\* ------------------------------------------------------------------ r.Body
\* The stream delivers the body in chunks; a failing stream returns an error
\* once failAt bytes have been read, and the same error on every later Read.
StreamLimit(r) ==
  IF stream[r].failing THEN stream[r].failAt ELSE Len(body0[r])

StreamHasData(r) == ~stream[r].err /\ stream[r].pos < StreamLimit(r)

StreamAtEOF(r) ==
  ~stream[r].err /\ ~stream[r].failing /\ stream[r].pos = Len(body0[r])

StreamAtError(r) ==
  stream[r].err \/ (stream[r].failing /\ stream[r].pos = stream[r].failAt)

ChunkSizes(r) == 1..Min(MaxChunk, StreamLimit(r) - stream[r].pos)

Chunk(r, n) == SubSeq(body0[r], stream[r].pos + 1, stream[r].pos + n)

Advance(r, n) == [stream EXCEPT ![r].pos = @ + n]

Fail(r) == [stream EXCEPT ![r].err = TRUE]

\* -------------------------------------------------------- the gate's pieces
\* io.TeeReader + ioutil.ReadAll, one Read: the chunk goes to the local buffer
\* and to the slice ReadAll returns.
TeeReadPrepend(f, chunk) ==
  [f EXCEPT !.bb = chunk \o @, !.buffer = chunk \o @]

TeeRead(f, chunk) ==
  [f EXCEPT !.bb = @ \o chunk, !.buffer = @ \o chunk]

\* ReadAll stops at the first error and returns what it has read; the gate
\* drops the error (bb, _ := ...).
OnReadErrorDropBytes(f) == [f EXCEPT !.err = TRUE, !.bb = <<>>]

OnReadError(f) == [f EXCEPT !.err = TRUE]

\* The frame is a local of the request's own invocation.
StoreFrameShared(r, f) ==
  [q \in Reqs |->
     IF q = r THEN [frames[q] EXCEPT ![level[q]] = f]
     ELSE IF level[q] \in 1..Len(frames[q])
          THEN [frames[q] EXCEPT ![level[q]].buffer = f.buffer, ![level[q]].bb = f.bb]
          ELSE frames[q]]

StoreFrame(r, f) == [frames EXCEPT ![r][level[r]] = f]

\* verifyRequest: if shop == ""
ShopMissingNever(shop) == FALSE

ShopMissing(shop) == shop = <<>>

\* verifyRequest: sum := hex.EncodeToString(hmac-sha256(key, bb))
Sum(k, bb) == EncodeToString(HmacSha256(k, bb))

\* verifyRequest: return sum == shmac
SumMatchesPrefix(sum, shmac) ==
  Len(shmac) <= Len(sum) /\ SubSeq(sum, 1, Len(shmac)) = shmac

SumMatches(sum, shmac) == sum = shmac

\* http.Error(w, msg, code): WriteHeader(code), then Fprintln(w, msg).  The
\* first WriteHeader of a response decides its status.
httpErrorNoNewline(wr, lvl, msg, code) ==
  [status |-> IF wr.status = 0 THEN code ELSE wr.status,
   body   |-> wr.body \o <<msg>>,
   log    |-> Append(wr.log, [by |-> lvl, code |-> code, text |-> <<msg>>])]

httpError(wr, lvl, msg, code) ==
  [status |-> IF wr.status = 0 THEN code ELSE wr.status,
   body   |-> wr.body \o <<msg, "\n">>,
   log    |-> Append(wr.log, [by |-> lvl, code |-> code, text |-> <<msg, "\n">>])]

\* The statement after the if: h.ServeHTTP(w, r), whatever ok was.
AfterVerifyShortCircuit(ok) == IF ok THEN "delegate" ELSE "return"

AfterVerify(ok) == "delegate"

\* What h.ServeHTTP(w, r) is passed: the request and the writer the gate got.
DelegateArgs(r) == [req |-> r, w |-> r, hdr |-> hdr[r]]

Log(r, lvl, ev) == [trace EXCEPT ![r] = Append(@, <<lvl, ev>>)]

\* Calling handler number lvl of the chain: a gate while lvl <= depth, h after.
Call(r, lvl) ==
  /\ level' = [level EXCEPT ![r] = lvl]
  /\ IF lvl <= depth
     THEN /\ frames' = [frames EXCEPT ![r] = Append(@, EmptyFrame)]
          /\ pc' = [pc EXCEPT ![r] = "headers"]
          /\ calls' = calls
     ELSE /\ frames' = frames
          /\ pc' = [pc EXCEPT ![r] = "handler"]
          /\ calls' = [calls EXCEPT ![r] = Append(@, DelegateArgs(r))]

\* ------------------------------------------------------------------ actions
\* The transport hands the request to the outermost handler.
Dispatch(r) ==
  /\ pc[r] = "idle"
  /\ r \in active
  /\ Call(r, 1)
  /\ UNCHANGED <<key, depth, active, hdr, body0, stream, w, got, trace>>

\* shmac := r.Header.Get(...); shop := r.Header.Get(...)
GateReadHeadersDel(r) ==
  /\ pc[r] = "headers"
  /\ frames' = StoreFrame(r, [Top(r) EXCEPT !.shmac = HeaderGet(hdr[r], HmacHeader),
                                            !.shop = HeaderGet(hdr[r], ShopHeader)])
  /\ hdr' = [hdr EXCEPT ![r] = [n \in DOMAIN @ \ {HmacHeader} |-> @[n]]]
  /\ pc' = [pc EXCEPT ![r] = "read"]
  /\ trace' = Log(r, level[r], "headers")
  /\ UNCHANGED <<key, depth, active, body0, stream, level, w, calls, got>>

GateReadHeaders(r) ==
  /\ pc[r] = "headers"
  /\ frames' = StoreFrame(r, [Top(r) EXCEPT !.shmac = HeaderGet(hdr[r], HmacHeader),
                                            !.shop = HeaderGet(hdr[r], ShopHeader)])
  /\ pc' = [pc EXCEPT ![r] = "read"]
  /\ trace' = Log(r, level[r], "headers")
  /\ UNCHANGED <<key, depth, active, hdr, body0, stream, level, w, calls, got>>

\* tr := io.TeeReader(r.Body, &buffer); bb, _ := ioutil.ReadAll(tr): one Read
\* of the loop, which ends at end-of-stream or at the first error.
GateReadBody(r) ==
  /\ pc[r] = "read"
  /\ \/ /\ StreamHasData(r)
        /\ \E n \in ChunkSizes(r) :
             /\ frames' = StoreFrame(r, TeeRead(Top(r), Chunk(r, n)))
             /\ stream' = Advance(r, n)
        /\ UNCHANGED <<pc, trace>>
     \/ /\ StreamAtEOF(r)
        /\ pc' = [pc EXCEPT ![r] = "verify"]
        /\ trace' = Log(r, level[r], "body")
        /\ UNCHANGED <<frames, stream>>
     \/ /\ StreamAtError(r)
        /\ frames' = StoreFrame(r, OnReadError(Top(r)))
        /\ stream' = Fail(r)
        /\ pc' = [pc EXCEPT ![r] = "verify"]
        /\ trace' = Log(r, level[r], "body")
  /\ UNCHANGED <<key, depth, active, hdr, body0, level, w, calls, got>>

\* verifyRequest(key, shop, shmac, bb): if shop == "" { return false }
VerifyShop(r) ==
  /\ pc[r] = "verify"
  /\ IF ShopMissing(Top(r).shop)
     THEN /\ frames' = StoreFrame(r, [Top(r) EXCEPT !.verified = TRUE, !.ok = FALSE])
          /\ pc' = [pc EXCEPT ![r] = "checked"]
          /\ trace' = Log(r, level[r], "verify")
     ELSE /\ frames' = frames
          /\ pc' = [pc EXCEPT ![r] = "hmac"]
          /\ trace' = trace
  /\ UNCHANGED <<key, depth, active, hdr, body0, stream, level, w, calls, got>>

\* h := hmac.New(sha256.New, []byte(key)); h.Write(bb); sum := hex...(h.Sum(nil))
VerifyHmac(r) ==
  /\ pc[r] = "hmac"
  /\ frames' = StoreFrame(r, [Top(r) EXCEPT !.hashed = TRUE, !.sum = Sum(key, Top(r).bb)])
  /\ pc' = [pc EXCEPT ![r] = "compare"]
  /\ UNCHANGED <<key, depth, active, hdr, body0, stream, level, w, calls, got, trace>>

\* return sum == shmac
VerifyCompare(r) ==
  /\ pc[r] = "compare"
  /\ frames' = StoreFrame(r, [Top(r) EXCEPT !.verified = TRUE,
                                            !.ok = SumMatches(Top(r).sum, Top(r).shmac)])
  /\ pc' = [pc EXCEPT ![r] = "checked"]
  /\ trace' = Log(r, level[r], "verify")
  /\ UNCHANGED <<key, depth, active, hdr, body0, stream, level, w, calls, got>>

\* if ok := verifyRequest(...); !ok { http.Error(w, "...", 400) }
GateReject(r) ==
  /\ pc[r] = "checked"
  /\ IF ~Top(r).ok
     THEN /\ w' = [w EXCEPT ![r] = httpError(@, level[r], InvalidSignatureMessage,
                                             StatusBadRequest)]
          /\ trace' = Log(r, level[r], "write400")
     ELSE /\ w' = w
          /\ trace' = trace
  /\ pc' = [pc EXCEPT ![r] = AfterVerify(Top(r).ok)]
  /\ UNCHANGED <<key, depth, active, hdr, body0, stream, level, frames, calls, got>>

\* h.ServeHTTP(w, r)
GateDelegate(r) ==
  /\ pc[r] = "delegate"
  /\ Call(r, level[r] + 1)
  /\ trace' = Log(r, level[r], "delegate")
  /\ UNCHANGED <<key, depth, active, hdr, body0, stream, w, got>>

\* The downstream handler reads r.Body to the end of the stream, then returns.
HandlerRead(r) ==
  /\ pc[r] = "handler"
  /\ \/ /\ StreamHasData(r)
        /\ \E n \in ChunkSizes(r) :
             /\ got' = [got EXCEPT ![r] = @ \o Chunk(r, n)]
             /\ stream' = Advance(r, n)
        /\ UNCHANGED pc
     \/ /\ StreamAtEOF(r)
        /\ pc' = [pc EXCEPT ![r] = "return"]
        /\ UNCHANGED <<got, stream>>
     \/ /\ StreamAtError(r)
        /\ stream' = Fail(r)
        /\ pc' = [pc EXCEPT ![r] = "return"]
        /\ UNCHANGED got
  /\ UNCHANGED <<key, depth, active, hdr, body0, level, frames, w, calls, trace>>

\* A handler of the chain returns to its caller; the outermost gate returns to
\* the transport.
Return(r) ==
  /\ pc[r] = "return"
  /\ level' = [level EXCEPT ![r] = @ - 1]
  /\ pc' = [pc EXCEPT ![r] = IF level[r] = 1 THEN "done" ELSE "return"]
  /\ trace' = IF level[r] <= depth THEN Log(r, level[r], "end") ELSE trace
  /\ UNCHANGED <<key, depth, active, hdr, body0, stream, frames, w, calls, got>>

Next ==
  \E r \in Reqs :
    \/ Dispatch(r)
    \/ GateReadHeaders(r)
    \/ GateReadBody(r)
    \/ VerifyShop(r)
    \/ VerifyHmac(r)
    \/ VerifyCompare(r)
    \/ GateReject(r)
    \/ GateDelegate(r)
    \/ HandlerRead(r)
    \/ Return(r)

\* ------------------------------------------------------ the requests sent
\* What a sender holding secret k puts in the signature header for body b:
\* the lowercase hexadecimal HMAC-SHA256 digest, written digit by digit.
HexDigit(n) ==
  CASE n = 0 -> "0" [] n = 1 -> "1" [] n = 2 -> "2" [] n = 3 -> "3"
    [] n = 4 -> "4" [] n = 5 -> "5" [] n = 6 -> "6" [] n = 7 -> "7"
    [] n = 8 -> "8" [] n = 9 -> "9" [] n = 10 -> "a" [] n = 11 -> "b"
    [] n = 12 -> "c" [] n = 13 -> "d" [] n = 14 -> "e" [] n = 15 -> "f"

RECURSIVE LowerHex(_)
LowerHex(bytes) ==
  IF bytes = <<>> THEN <<>>
  ELSE <<HexDigit(Head(bytes) \div 16), HexDigit(Head(bytes) % 16)>>
         \o LowerHex(Tail(bytes))

CorrectSignatureFor(k, b) == LowerHex(HmacSha256(k, b))

UpperChar(c) ==
  CASE c = "a" -> "A" [] c = "b" -> "B" [] c = "c" -> "C"
    [] c = "d" -> "D" [] c = "e" -> "E" [] c = "f" -> "F" [] OTHER -> c

Upper(s) == [i \in 1..Len(s) |-> UpperChar(s[i])]

DeadBeef == <<"d", "e", "a", "d", "b", "e", "e", "f">>
ShopName == <<"s", "h", "o", "p">>

\* A header is <<>> when the request does not carry it and <<v>> when it
\* carries the value v.
SigOptions(k, b) ==
  LET good == CorrectSignatureFor(k, b)
  IN  {<<>>, <<good>>, <<Upper(good)>>, <<Prefix(good, 8)>>, <<Append(good, "0")>>,
       <<DeadBeef>>, << <<>> >>}
        \cup {<<CorrectSignatureFor(k, Prefix(b, n))>> : n \in 0..Len(b)}
        \cup {<<CorrectSignatureFor(k2, b)>> : k2 \in Keys}

ShopOptions == {<<>>, << <<>> >>, <<ShopName>>}

MakeHeader(sig, shop) ==
  [n \in (IF sig = <<>> THEN {} ELSE {HmacHeader})
           \cup (IF shop = <<>> THEN {} ELSE {ShopHeader}) |->
     IF n = HmacHeader THEN sig[1] ELSE shop[1]]

IdleHeader == MakeHeader(<< <<>> >>, << <<>> >>)

HealthyStream == [pos |-> 0, failing |-> FALSE, failAt |-> 0, err |-> FALSE]

FailingStream(n) == [pos |-> 0, failing |-> TRUE, failAt |-> n, err |-> FALSE]

StreamOptions(b) == {HealthyStream} \cup {FailingStream(n) : n \in 0..Len(b)}

InitTasks ==
  /\ pc = [r \in Reqs |-> "idle"]
  /\ level = [r \in Reqs |-> 0]
  /\ frames = [r \in Reqs |-> <<>>]
  /\ w = [r \in Reqs |-> EmptyWriter]
  /\ calls = [r \in Reqs |-> <<>>]
  /\ got = [r \in Reqs |-> <<>>]
  /\ trace = [r \in Reqs |-> <<>>]

\* One request, every input, a chain of 1..MaxDepth gates.
Init ==
  /\ key \in Keys
  /\ depth \in 1..MaxDepth
  /\ active = {1}
  /\ \E b \in Bodies :
       /\ body0 = [r \in Reqs |-> IF r = 1 THEN b ELSE <<>>]
       /\ \E sig \in SigOptions(key, b), shop \in ShopOptions :
            hdr = [r \in Reqs |-> IF r = 1 THEN MakeHeader(sig, shop) ELSE IdleHeader]
       /\ \E s \in StreamOptions(b) :
            stream = [r \in Reqs |-> IF r = 1 THEN s ELSE HealthyStream]
  /\ InitTasks

Spec == Init /\ [][Next]_vars

\* All requests in flight at once through one gate.  Request r sends r bytes
\* of its own, signed correctly or with the signature of the next request's
\* body, over a stream that may fail after the first byte.
ConcBody(r) == [i \in 1..r |-> IF r % 2 = 1 THEN 97 ELSE 98]

ConcHeaders(k, r) ==
  {MakeHeader(<<CorrectSignatureFor(k, ConcBody(r))>>, <<ShopName>>),
   MakeHeader(<<CorrectSignatureFor(k, ConcBody((r % NumRequests) + 1))>>, <<ShopName>>)}

ConcStreams == {HealthyStream, FailingStream(1)}

InitConc ==
  /\ key \in Keys
  /\ depth = 1
  /\ active = Reqs
  /\ body0 = [r \in Reqs |-> ConcBody(r)]
  /\ hdr \in [Reqs -> UNION {ConcHeaders(key, r) : r \in Reqs}]
  /\ \A r \in Reqs : hdr[r] \in ConcHeaders(key, r)
  /\ stream \in [Reqs -> ConcStreams]
  /\ InitTasks

SpecConc == InitConc /\ [][Next]_vars

\* ------------------------------------------------ vocabulary of the claims
IsPrefix(a, b) == Len(a) <= Len(b) /\ a = SubSeq(b, 1, Len(a))

\* The bytes the body stream of request r delivers before it ends or fails.
Delivered(r) == Prefix(body0[r], StreamLimit(r))

\* The stream of request r fails before it has delivered the whole body.
FailsPartway(r) == stream[r].failing /\ stream[r].failAt < Len(body0[r])

Gates(r) == 1..Len(frames[r])

\* The steps gate l has taken for request r, in order.
StepsOf(r, l) ==
  LET mine == SelectSeq(trace[r], LAMBDA e : e[1] = l)
  IN  [i \in 1..Len(mine) |-> mine[i][2]]

Did(r, l, step) == \E i \in DOMAIN trace[r] : trace[r][i] = <<l, step>>

\* What gate l has written to the response of request r.
WrittenBy(r, l) == SelectSeq(w[r].log, LAMBDA e : e.by = l)

BadRequestWrite(l) ==
  [by |-> l, code |-> 400, text |-> <<"Invalid webhook signature", "\n">>]

\* Gate l has executed its if statement for request r.
Decided(r, l) ==
  /\ l \in Gates(r)
  /\ frames[r][l].verified
  /\ ~(level[r] = l /\ pc[r] = "checked")

\* The verdict the specification gives for the arguments of verifyRequest.
Authentic(k, shop, shmac, bb) ==
  shop # <<>> /\ shmac = CorrectSignatureFor(k, bb)

\* ---------------------------------------------------------------------- C1
\* C1: once the gate has run over a body stream that does not fail, the bytes
\* the downstream handler read to end-of-stream are the original request body,
\* whatever the verification outcome was.  (The code tees the body into a
\* local buffer and never gives it back to r.Body: stated as the claim, this
\* is violated.)
C1_DownstreamReadsOriginalBody ==
  \A r \in Reqs :
    (pc[r] = "done" /\ ~stream[r].failing) => got[r] = body0[r]

\* ---------------------------------------------------------------------- C2
\* C2: verifyRequest(key, shop, shmac, bb) is true exactly when shop is not
\* empty and shmac is the lowercase hex HMAC-SHA256 of bb under key.
C2_VerifyIffShopAndExactSignature ==
  \A r \in Reqs : \A l \in Gates(r) :
    LET f == frames[r][l]
    IN  f.verified => (f.ok <=> Authentic(key, f.shop, f.shmac, f.bb))

\* Scenario 1 of the specification: secret abc123, body {"id":1}, accepted.
C2_Witness ==
  \E r \in Reqs :
    /\ key = "abc123"
    /\ frames[r] # <<>>
    /\ frames[r][1].verified /\ frames[r][1].ok
    /\ frames[r][1].bb = ScenarioBody
    /\ Len(frames[r][1].sum) = 64
    /\ SubSeq(frames[r][1].sum, 1, 8) = <<"1", "1", "8", "4", "f", "b", "1", "b">>

\* ---------------------------------------------------------------------- C3
\* C3: with an empty sender id verifyRequest returns false, also for the
\* correct signature, and no HMAC is computed on the way.
C3_EmptyShopRejectsBeforeHmac ==
  \A r \in Reqs :
    /\ \A l \in Gates(r) :
         LET f == frames[r][l]
         IN  (f.verified /\ f.shop = <<>>) => (~f.ok /\ ~f.hashed)
    /\ (pc[r] \in {"hmac", "compare"}) => Top(r).shop # <<>>

\* Empty sender id, signature correct for a non-empty body: rejected.
C3_Witness ==
  \E r \in Reqs :
    /\ frames[r] # <<>>
    /\ frames[r][1].verified /\ frames[r][1].shop = <<>>
    /\ frames[r][1].bb # <<>>
    /\ frames[r][1].shmac = CorrectSignatureFor(key, frames[r][1].bb)

\* ---------------------------------------------------------------------- C4
\* C4: a gate writes to the response exactly when its verification returned
\* false, and then once: status 400, body "Invalid webhook signature" and a
\* newline; a gate whose verification returned true writes nothing.
C4_WritesBadRequestIffRejected ==
  \A r \in Reqs :
    /\ \A l \in 1..MaxDepth + 1 :
         WrittenBy(r, l) =
           IF Decided(r, l)
                /\ ~Authentic(key, frames[r][l].shop, frames[r][l].shmac, frames[r][l].bb)
           THEN <<BadRequestWrite(l)>>
           ELSE <<>>
    /\ w[r].status = (IF w[r].log = <<>> THEN 0 ELSE 400)
    /\ Len(w[r].body) = 2 * Len(w[r].log)
    /\ \A i \in DOMAIN w[r].log :
         <<w[r].body[2 * i - 1], w[r].body[2 * i]>> = w[r].log[i].text

\* A single gate rejected and wrote its one 400 response.
C4_Witness ==
  \E r \in Reqs :
    /\ pc[r] = "done" /\ depth = 1
    /\ w[r].status = 400
    /\ w[r].body = <<"Invalid webhook signature", "\n">>

\* ---------------------------------------------------------------------- C5
\* C5: every gate takes its steps in the order headers, body read to the end,
\* verification, 400 write when rejected, delegation, end; the downstream
\* handler is invoked exactly once per request, after every body read and
\* every 400 write, whether verification passed or not.
C5_StepOrder(r, l) ==
  LET rejected == l \in Gates(r) /\ frames[r][l].verified /\ ~frames[r][l].ok
      full == <<"headers", "body", "verify">>
                \o (IF rejected THEN <<"write400">> ELSE <<>>)
                \o <<"delegate", "end">>
  IN  IsPrefix(StepsOf(r, l), full)

C5_OrderedStepsAndOneDelegation ==
  \A r \in Reqs :
    /\ \A l \in 1..depth : C5_StepOrder(r, l)
    /\ Len(calls[r]) <= 1
    /\ calls[r] # <<>> =>
         /\ stream[r].pos = StreamLimit(r)
         /\ \A l \in 1..depth :
              /\ Did(r, l, "body") /\ Did(r, l, "verify") /\ Did(r, l, "delegate")
              /\ ~frames[r][l].ok => WrittenBy(r, l) # <<>>
    /\ pc[r] = "done" =>
         /\ Len(calls[r]) = 1
         /\ \A l \in 1..depth : Did(r, l, "end")

\* A rejected request that still reached the downstream handler.
C5_Witness ==
  \E r \in Reqs :
    /\ pc[r] = "done"
    /\ ~frames[r][1].ok
    /\ w[r].log # <<>>
    /\ Len(calls[r]) = 1

\* ---------------------------------------------------------------------- C6
\* C6: no step changes the request headers or the configured secret, and the
\* downstream handler is passed the request and the writer the gate received,
\* with the headers the request came in with.
C6_HeadersAndSecretUntouched ==
  [][/\ hdr' = hdr
     /\ key' = key
     /\ \A r \in Reqs :
          calls'[r] # calls[r] =>
            calls'[r] = Append(calls[r], [req |-> r, w |-> r, hdr |-> hdr[r]])]_vars

\* The handler was invoked for a request carrying both headers.
C6_Witness ==
  \E r \in Reqs :
    /\ calls[r] # <<>>
    /\ DOMAIN hdr[r] = {HmacHeader, ShopHeader}
    /\ calls[r][1].hdr = hdr[r]

\* ---------------------------------------------------------------------- C7
\* C7: under every interleaving of concurrent requests, what a gate buffers,
\* decides and writes for a request is determined by that request's own
\* headers and body and the secret; its buffer holds bytes of its own body
\* only.
C7_RequestsIsolated ==
  \A r \in Reqs :
    frames[r] # <<>> =>
      LET f == frames[r][1]
          verdict == Authentic(key, HeaderGet(hdr[r], ShopHeader),
                               HeaderGet(hdr[r], HmacHeader), Delivered(r))
      IN  /\ IsPrefix(f.buffer, body0[r])
          /\ f.bb = f.buffer
          /\ Did(r, 1, "body") => f.buffer = Delivered(r)
          /\ f.verified => f.ok = verdict
          /\ WrittenBy(r, 1) = IF Decided(r, 1) /\ ~verdict THEN <<BadRequestWrite(1)>> ELSE <<>>
          /\ \A i \in DOMAIN w[r].log : w[r].log[i].by \in Gates(r)

\* Two requests with different bodies are both in the middle of their reads.
C7_Witness ==
  \E r1, r2 \in Reqs :
    /\ r1 # r2
    /\ body0[r1] # body0[r2]
    /\ pc[r1] = "read" /\ pc[r2] = "read"
    /\ frames[r1][1].buffer # <<>> /\ frames[r2][1].buffer # <<>>

\* ---------------------------------------------------------------------- C8
\* C8 as claimed: when the body stream fails partway, the gate verifies the
\* bytes read so far, the check fails, a 400 is written and the downstream
\* handler is still invoked.
C8_PartialReadAlwaysRejected ==
  \A r \in Reqs :
    (pc[r] = "done" /\ FailsPartway(r)) =>
      /\ frames[r][1].bb = Delivered(r)
      /\ WrittenBy(r, 1) = <<BadRequestWrite(1)>>
      /\ Len(calls[r]) = 1

\* C8 as amended: when the body stream fails partway, the gate raises no
\* error and verifies the bytes read so far; it writes the 400 unless the shop
\* header is not empty and the signature header is the hex HMAC of exactly
\* those bytes; the downstream handler is still invoked.
C8_PartialReadVerifiesBytesRead ==
  \A r \in Reqs :
    (FailsPartway(r) /\ Did(r, 1, "body")) =>
      LET f == frames[r][1]
          accepted == Authentic(key, HeaderGet(hdr[r], ShopHeader),
                                HeaderGet(hdr[r], HmacHeader), Delivered(r))
      IN  /\ f.err
          /\ f.bb = Delivered(r)
          /\ f.verified => f.ok = accepted
          /\ pc[r] = "done" =>
               /\ WrittenBy(r, 1) = IF accepted THEN <<>> ELSE <<BadRequestWrite(1)>>
               /\ Len(calls[r]) = 1

\* The stream failed after some but not all bytes, the signature was that of
\* the bytes read, and the request went through without a 400.
C8_Witness ==
  \E r \in Reqs :
    /\ pc[r] = "done"
    /\ FailsPartway(r) /\ stream[r].failAt > 0
    /\ frames[r][1].err /\ frames[r][1].ok
    /\ w[r].log = <<>>
    /\ Len(calls[r]) = 1

\* ---------------------------------------------------------------------- C9
\* C9: with the gate wrapped twice under one secret, the inner gate reads the
\* bytes the outer gate verified, both reach the same outcome, and a request
\* with a shop header and the correct signature gets no 400 and reaches the
\* handler once.  (The inner gate finds r.Body already read to its end:
\* stated as the claim, this is violated.)
C9_ChainedGatesAgree ==
  \A r \in Reqs :
    (pc[r] = "done" /\ depth >= 2 /\ ~stream[r].failing) =>
      /\ \A l \in Gates(r) : frames[r][l].ok = frames[r][1].ok
      /\ Authentic(key, HeaderGet(hdr[r], ShopHeader),
                   HeaderGet(hdr[r], HmacHeader), body0[r])
           => (w[r].log = <<>> /\ Len(calls[r]) = 1)

\* --------------------------------------------------------------------- C10
\* C10: when the body is read without error, the gate that receives the
\* request from the transport calls verifyRequest with the configured secret,
\* the two header values ("" for an absent header) and the whole body in its
\* original order.
C10_VerifierArguments ==
  \A r \in Reqs :
    (frames[r] # <<>> /\ ~frames[r][1].err) =>
      LET f == frames[r][1]
      IN  /\ Did(r, 1, "headers") =>
               /\ f.shop = (IF ShopHeader \in DOMAIN hdr[r]
                            THEN hdr[r][ShopHeader] ELSE <<>>)
               /\ f.shmac = (IF HmacHeader \in DOMAIN hdr[r]
                             THEN hdr[r][HmacHeader] ELSE <<>>)
          /\ Did(r, 1, "body") => f.bb = body0[r]
          /\ f.hashed => f.sum = CorrectSignatureFor(key, body0[r])

\* A body of several bytes was read in full and verified for a request that
\* carries no signature header.
C10_Witness ==
  \E r \in Reqs :
    /\ frames[r] # <<>>
    /\ frames[r][1].verified /\ ~frames[r][1].err
    /\ Len(frames[r][1].bb) >= 2
    /\ HmacHeader \notin DOMAIN hdr[r]
    /\ frames[r][1].shmac = <<>>
====
